---- MODULE Spec2Model ----
(***************************************************************************)
(* Workflow JSON -> CSV/XLSX converter (src/src/App.jsx).                  *)
(*                                                                         *)
(* The module models the decoded JSON values the component works on, the   *)
(* pure functions makeRow and processWorkflow, and the asynchronous        *)
(* handler handleFileUpload with the React state it writes (rows,          *)
(* loading).                                                               *)
(*                                                                         *)
(* The bullet character U+2022 of the source is written "*" here: TLA+     *)
(* strings are ASCII.                                                      *)
(***************************************************************************)
EXTENDS Integers, Sequences, FiniteSets, TLC

VARIABLES
    rows,         \* useState([])  : the displayed rows
    loading,      \* useState(false)
    pc,           \* position of handleFileUpload
    file,         \* the File handed to handleFileUpload
    entry,        \* index of the zip entry the for-of loop is at
    jsonObjects,  \* let jsonObjects = []
    csvRows,      \* const csvRows = []
    wfIdx,        \* index of jsonObjects.forEach
    failed,       \* the catch block ran (console.error + alert)
    rowsBefore,   \* history: rows when the upload started
    call,         \* a direct call of makeRow / processWorkflow: the arguments
    ret           \* ... and its outcome

vars == <<rows, loading, pc, file, entry, jsonObjects, csvRows, wfIdx,
          failed, rowsBefore, call, ret>>

uploadVars == <<rows, loading, pc, file, entry, jsonObjects, csvRows, wfIdx,
                failed, rowsBefore>>

-----------------------------------------------------------------------------
(* Bounds of the inputs.                                                   *)

MaxOptions == 2   \* entries of a data / data.choices array
MaxRules == 2     \* entries of a rules array
MaxInputs == 2    \* entries of a rule's input / show.parameters array
MaxParams == 2    \* entries of a top-level parameterRequests array
MaxStages == 2    \* entries of stageRequests
MaxDocs == 2      \* workflows in a top-level JSON array
MaxEntries == 2   \* entries of a zip archive

-----------------------------------------------------------------------------
(* JavaScript values, as JSON.parse and the code produce them.             *)

Undefined == [k |-> "undefined"]
Null == [k |-> "null"]
Str(s) == [k |-> "string", s |-> s]
Bool(b) == [k |-> "boolean", b |-> b]
Num(n) == [k |-> "number", n |-> n]
Arr(items) == [k |-> "array", items |-> items]
\* An object is its own properties in insertion order.
Obj(props) == [k |-> "object", f |-> props]
P(key, value) == [key |-> key, value |-> value]

IsNullish(v) == v.k \in {"undefined", "null"}

\* v.name for a value that is not null or undefined.
Get(v, name) ==
    IF v.k = "object"
    THEN LET at == {i \in DOMAIN v.f : v.f[i].key = name}
         IN  IF at = {} THEN Undefined ELSE v.f[CHOOSE i \in at : TRUE].value
    ELSE IF v.k = "array" /\ name = "length" THEN Num(Len(v.items))
    ELSE IF v.k = "string" /\ name = "length" THEN Num(Len(v.s))
    ELSE Undefined

\* v?.name
OptGet(v, name) == IF IsNullish(v) THEN Undefined ELSE Get(v, name)

\* ToBoolean
Truthy(v) ==
    CASE v.k = "undefined" -> FALSE
      [] v.k = "null" -> FALSE
      [] v.k = "string" -> v.s # ""
      [] v.k = "boolean" -> v.b
      [] v.k = "number" -> v.n # 0
      [] OTHER -> TRUE

\* v === "s"
StrictEq(v, s) == v.k = "string" /\ v.s = s

isArray(v) == v.k = "array"

RECURSIVE String(_)
RECURSIVE joinFrom(_, _, _)

\* Array.prototype.join: null and undefined elements render as "".
joinFrom(items, i, sep) ==
    IF i > Len(items) THEN ""
    ELSE (IF i = 1 THEN "" ELSE sep)
         \o (IF IsNullish(items[i]) THEN "" ELSE String(items[i]))
         \o joinFrom(items, i + 1, sep)

join(arr, sep) == joinFrom(arr.items, 1, sep)

\* ToString, as a template literal and string + apply it.
String(v) ==
    CASE v.k = "undefined" -> "undefined"
      [] v.k = "null" -> "null"
      [] v.k = "string" -> v.s
      [] v.k = "boolean" -> (IF v.b THEN "true" ELSE "false")
      [] v.k = "number" -> ToString(v.n)
      [] v.k = "array" -> joinFrom(v.items, 1, ",")
      [] OTHER -> "[object Object]"

\* arr.map((d) => d.name)
mapName(arr) == Arr([i \in DOMAIN arr.items |-> Get(arr.items[i], "name")])
mapNameThrows(arr) == \E i \in DOMAIN arr.items : IsNullish(arr.items[i])

-----------------------------------------------------------------------------
(* makeRow                                                                 *)

Bullet == " * "

\* const fieldLogic = {...}: the own properties of the table.
fieldLogic(param) ==
    LET l == String(Get(param, "label")) IN
    Obj(<<
      P("SINGLE_SELECT", Str("Performer selects if " \o l \o ".")),
      P("MULTISELECT", Str("Performer selects one or more options for " \o l \o ".")),
      P("CHECKLIST", Str("Performer checks applicable items for " \o l \o ".")),
      P("SINGLE_LINE", Str("Performer enters " \o l \o ".")),
      P("MULTI_LINE", Str("Performer enters a detailed response for " \o l \o ".")),
      P("FILE_UPLOAD", Str("Performer uploads the required file(s) for " \o l \o ".")),
      P("RESOURCE", Str("Performer selects a resource for " \o l \o ".")),
      P("DATE", Str("Performer enters the date for " \o l \o ".")),
      P("INSTRUCTION", Str("Performer provides input for " \o l \o "."))
    >>)

\* const options = ... : a string
options(param) ==
    LET data == Get(param, "data") IN
    IF isArray(data) THEN join(mapName(data), Bullet)
    ELSE IF isArray(OptGet(data, "choices"))
         THEN join(mapName(Get(data, "choices")), Bullet)
         ELSE ""

optionsThrows(param) ==
    LET data == Get(param, "data") IN
    IF isArray(data) THEN mapNameThrows(data)
    ELSE IF isArray(OptGet(data, "choices"))
         THEN mapNameThrows(Get(data, "choices"))
         ELSE FALSE

\* const desc = fieldLogic[param.type] + (options ? ` Available Options: ...` : "")
desc(param) ==
    String(Get(fieldLogic(param), String(Get(param, "type"))))
      \o (IF options(param) # ""
          THEN " Available Options:" \o Bullet \o options(param)
          ELSE "")

\* param.rules || []
rulesOrEmpty(param) ==
    IF Truthy(Get(param, "rules")) THEN Get(param, "rules") ELSE Arr(<<>>)

\* `${x?.join(", ")}` for x = r.input and x = r.show?.parameters
optJoin(x) == IF IsNullish(x) THEN Undefined ELSE Str(join(x, ", "))
optJoinThrows(x) == ~IsNullish(x) /\ ~isArray(x)

ruleText(param, r) ==
    "Visible if [" \o String(Get(param, "label")) \o "] is ["
      \o String(optJoin(Get(r, "input")))
      \o "]. Shows parameters: ["
      \o String(optJoin(OptGet(OptGet(r, "show"), "parameters")))
      \o "]"

ruleTextThrows(r) ==
    \/ IsNullish(r)
    \/ optJoinThrows(Get(r, "input"))
    \/ optJoinThrows(OptGet(OptGet(r, "show"), "parameters"))

\* The rule texts joined as the values inside a rule are.
rulesCommaJoined(param) ==
    LET rs == rulesOrEmpty(param).items IN
    join(Arr([i \in DOMAIN rs |-> Str(ruleText(param, rs[i]))]), ", ")

\* const rules = (param.rules || []).map(...).join("; ")
rules(param) ==
    LET rs == rulesOrEmpty(param).items IN
    join(Arr([i \in DOMAIN rs |-> Str(ruleText(param, rs[i]))]), "; ")

rulesThrows(param) ==
    \/ ~isArray(rulesOrEmpty(param))
    \/ \E i \in DOMAIN rulesOrEmpty(param).items :
          ruleTextThrows(rulesOrEmpty(param).items[i])

\* makeRow throws a TypeError
makeRowThrows(param) ==
    \/ IsNullish(param)
    \/ optionsThrows(param)
    \/ rulesThrows(param)

\* param.verificationType === "SELF" || param.verificationType === "BOTH" ? ...
verificationStatus(param) ==
    IF \/ StrictEq(Get(param, "verificationType"), "SELF")
       \/ StrictEq(Get(param, "verificationType"), "BOTH")
    THEN "Enabled" ELSE "Disabled"

\* A copy-paste slip: the B status tests what the first status tests.
verificationBStatusAsFirst(param) == verificationStatus(param)

\* param.verificationType === "BOTH" ? "Enabled" : "Disabled"
verificationBStatus(param) ==
    IF StrictEq(Get(param, "verificationType"), "BOTH")
    THEN "Enabled" ELSE "Disabled"

\* The properties of the object literal makeRow returns, in source order.
rowFields(stage, task, param) ==
    <<
      P("Stage Name", stage),
      P("Activity Name", task),
      P("Performer", Str("Performer/Verifier")),
      P("Activity Description in detail", Str(desc(param))),
      P("Validations / Conditions", Str(rules(param))),
      P("Instruction Title", Get(param, "label")),
      P("Field Type",
        Str(IF Truthy(Get(param, "mandatory")) THEN "Mandatory" ELSE "Optional")),
      P("Activity / Parameter Type", Get(param, "type")),
      P("Configuration Feasibility", Str("Configurable")),
      P("Configuration Feasibility Notes", Str("N/A")),
      P("Configuration Status", Str("Configured")),
      P("Verification Status", Str(verificationStatus(param))),
      P("Tester Comments", Str("N/A")),
      P("Verification B Status", Str(verificationBStatus(param))),
      P("Tester Comments (B)", Str("N/A"))
    >>

\* A row built property by property, which leaves out the undefined ones.
makeRowSparse(stage, task, param) ==
    Obj(SelectSeq(rowFields(stage, task, param),
                  LAMBDA prop : prop.value # Undefined))

makeRow(stage, task, param) == Obj(rowFields(stage, task, param))

-----------------------------------------------------------------------------
(* processWorkflow                                                         *)

\* The state of a traversal: the rows pushed so far, and whether a TypeError
\* has ended it.
Throw(acc) == [rows |-> acc.rows, threw |-> TRUE]
Push(acc, row) == [rows |-> Append(acc.rows, row), threw |-> FALSE]

RECURSIVE eachTop(_, _, _)
RECURSIVE eachParam(_, _, _, _, _)
RECURSIVE eachTask(_, _, _, _)
RECURSIVE eachStage(_, _, _)

\* wf.parameterRequests.forEach((p) => csvRows.push(makeRow("Create Job Form", p.label, p)))
eachTop(items, i, acc) ==
    IF acc.threw \/ i > Len(items) THEN acc
    ELSE IF IsNullish(items[i]) \/ makeRowThrows(items[i]) THEN Throw(acc)
    ELSE eachTop(items, i + 1,
                 Push(acc, makeRow(Str("Create Job Form"),
                                   Get(items[i], "label"), items[i])))

\* task.parameterRequests?.forEach((param) => csvRows.push(makeRow(stage.name, task.name, param)))
eachParam(stage, task, items, i, acc) ==
    IF acc.threw \/ i > Len(items) THEN acc
    ELSE IF makeRowThrows(items[i]) THEN Throw(acc)
    ELSE eachParam(stage, task, items, i + 1,
                   Push(acc, makeRow(Get(stage, "name"), Get(task, "name"),
                                     items[i])))

\* x?.forEach(f): nothing for null/undefined, a TypeError for a value
\* without a forEach method.
\* stage.taskRequests?.forEach((task) => ...)
eachTask(stage, items, i, acc) ==
    IF acc.threw \/ i > Len(items) THEN acc
    ELSE IF IsNullish(items[i]) THEN Throw(acc)
    ELSE LET pr == Get(items[i], "parameterRequests") IN
         eachTask(stage, items, i + 1,
                  IF IsNullish(pr) THEN acc
                  ELSE IF ~isArray(pr) THEN Throw(acc)
                  ELSE eachParam(stage, items[i], pr.items, 1, acc))

\* wf.stageRequests?.forEach((stage) => ...)
eachStage(items, i, acc) ==
    IF acc.threw \/ i > Len(items) THEN acc
    ELSE IF IsNullish(items[i]) THEN Throw(acc)
    ELSE LET tr == Get(items[i], "taskRequests") IN
         eachStage(items, i + 1,
                   IF IsNullish(tr) THEN acc
                   ELSE IF ~isArray(tr) THEN Throw(acc)
                   ELSE eachTask(items[i], tr.items, 1, acc))

\* if (wf.parameterRequests?.length) { wf.parameterRequests.forEach(...) }
topRows(wf, acc) ==
    LET top == Get(wf, "parameterRequests") IN
    IF Truthy(OptGet(top, "length"))
    THEN IF isArray(top) THEN eachTop(top.items, 1, acc) ELSE Throw(acc)
    ELSE acc

\* wf.stageRequests?.forEach(...)
stageRows(wf, acc) ==
    LET sr == Get(wf, "stageRequests") IN
    IF acc.threw \/ IsNullish(sr) THEN acc
    ELSE IF ~isArray(sr) THEN Throw(acc)
    ELSE eachStage(sr.items, 1, acc)

\* The job form treated as an alternative to the stages: its parameters are
\* read only when the workflow has no stages.
processWorkflowFormOrStages(wf, rs) ==
    LET start == [rows |-> rs, threw |-> FALSE] IN
    IF IsNullish(wf) THEN Throw(start)
    ELSE IF IsNullish(Get(wf, "stageRequests")) THEN topRows(wf, start)
    ELSE stageRows(wf, start)

\* The two traversals in the other order.
processWorkflowStagesFirst(wf, rs) ==
    LET start == [rows |-> rs, threw |-> FALSE] IN
    IF IsNullish(wf) THEN Throw(start)
    ELSE LET a1 == stageRows(wf, start) IN
         IF a1.threw THEN a1 ELSE topRows(wf, a1)

\* processWorkflow(wf, csvRows): csvRows afterwards, and whether it threw.
processWorkflow(wf, rs) ==
    LET start == [rows |-> rs, threw |-> FALSE] IN
    IF IsNullish(wf) THEN Throw(start)
    ELSE stageRows(wf, topRows(wf, start))

-----------------------------------------------------------------------------
(* Inputs of the direct calls.                                             *)

SeqsUpTo(S, n) == UNION {[1..k -> S] : k \in 0..n}
Prefixes(seq, n) == {SubSeq(seq, 1, k) : k \in 0..n}

\* A property that is absent from the JSON text is written Undefined here.
Opt(key, value) == IF value = Undefined THEN <<>> ELSE <<P(key, value)>>

Parameter(label, type, mandatory, verificationType, data, rs) ==
    Obj(Opt("label", label) \o Opt("type", type) \o Opt("mandatory", mandatory)
        \o Opt("verificationType", verificationType) \o Opt("data", data)
        \o Opt("rules", rs))

Types ==
    {Str("SINGLE_SELECT"), Str("MULTISELECT"), Str("CHECKLIST"),
     Str("SINGLE_LINE"), Str("MULTI_LINE"), Str("FILE_UPLOAD"), Str("RESOURCE"),
     Str("DATE"), Str("INSTRUCTION"), Str("SIGNATURE"), Undefined}

OptionEntries ==
    {Obj(<<P("name", Str("Low"))>>), Obj(<<P("name", Str("High"))>>),
     Obj(<<P("name", Str(""))>>), Obj(<<>>), Null}

OptionLists == {Arr(s) : s \in SeqsUpTo(OptionEntries, MaxOptions)}

DataValues ==
    {Undefined, Null, Str("x"), Obj(<<>>), Obj(<<P("choices", Str("x"))>>)}
      \cup OptionLists
      \cup {Obj(<<P("choices", l)>>) : l \in OptionLists}

InputLists ==
    {Arr(s) : s \in Prefixes(<<Str("Yes"), Str("No"), Str("Maybe"), Str("Later")>>,
                             MaxInputs)}
ShownLists ==
    {Arr(s) : s \in Prefixes(<<Str("Comment"), Str("Reason"), Str("Date"), Str("Owner")>>,
                             MaxInputs)}

FullRule == Obj(<<P("input", Arr(<<Str("Yes")>>)),
                  P("show", Obj(<<P("parameters", Arr(<<Str("Comment")>>))>>))>>)

\* Rules that vary in their input, and rules that vary in what they show.
RuleEntries ==
    {Null, Obj(<<>>)}
      \cup {Obj(Opt("input", i) \o <<P("show", Get(FullRule, "show"))>>) :
              i \in {Undefined, Str("Yes")} \cup InputLists}
      \cup {Obj(<<P("input", Get(FullRule, "input"))>> \o Opt("show", sh)) :
              sh \in {Undefined, Obj(<<>>), Obj(<<P("parameters", Str("Comment"))>>)}
                       \cup {Obj(<<P("parameters", l)>>) : l \in ShownLists}}

RuleValues ==
    {Undefined, Null, Obj(<<>>)}
      \cup {Arr(s) : s \in SeqsUpTo(RuleEntries, MaxRules)}

VerificationTypes ==
    {Undefined, Null, Str("SELF"), Str("BOTH"), Str("NONE"), Str("self"), Bool(TRUE)}

MandatoryValues == {Undefined, Null, Bool(TRUE), Bool(FALSE), Str("yes")}

RowParams ==
    {Null, Str("Full Name")}
      \cup {Parameter(Str("Priority"), t, Undefined, Undefined, d, Undefined) :
              t \in Types, d \in DataValues}
      \cup {Parameter(l, Str("SINGLE_LINE"), Undefined, Undefined, Undefined, r) :
              l \in {Str("Status"), Undefined}, r \in RuleValues}
      \cup {Parameter(Str("Full Name"), t, m, v, Undefined, Undefined) :
              t \in {Str("DATE"), Str("SIGNATURE"), Undefined},
              m \in MandatoryValues, v \in VerificationTypes}

\* makeRow as processWorkflow calls it: for a top-level parameter and for a
\* parameter of a task.
MakeRowCalls ==
    {[fn |-> "makeRow", stage |-> Str("Create Job Form"),
      task |-> OptGet(p, "label"), param |-> p] : p \in RowParams}
      \cup {[fn |-> "makeRow", stage |-> Str("Review"), task |-> Str("Approve"),
             param |-> p] : p \in RowParams}

\* Workflows: every parameter carries a label that names its position.
ParamAt(pos) == Parameter(Str(pos), Str("DATE"), Undefined, Undefined,
                          Undefined, Undefined)

\* A parameterRequests value by its shape: -1 absent, -2 null, -3 an array
\* with a null entry in the middle, n >= 0 an array of n parameters.
ParamList(prefix, shape) ==
    IF shape = -1 THEN Undefined
    ELSE IF shape = -2 THEN Null
    ELSE IF shape = -3
         THEN Arr(<<ParamAt(prefix \o "1"), Null, ParamAt(prefix \o "3")>>)
         ELSE Arr([i \in 1..shape |-> ParamAt(prefix \o ToString(i))])

Task(prefix, j, shape) ==
    Obj(<<P("name", Str(prefix \o "T" \o ToString(j)))>>
        \o Opt("parameterRequests",
               ParamList(prefix \o "T" \o ToString(j) \o "P", shape)))

\* A stage by the shapes of its tasks; <<-4>> is a stage without taskRequests.
StageShapes ==
    {<<-4>>, <<>>, <<-1>>, <<0>>, <<1>>, <<2, 1>>, <<1, -2, 2>>, <<1, -3, 1>>}

Stage(i, shape) ==
    Obj(<<P("name", Str("S" \o ToString(i)))>>
        \o (IF shape = <<-4>> THEN <<>>
            ELSE <<P("taskRequests",
                     Arr([j \in DOMAIN shape |->
                            Task("S" \o ToString(i), j, shape[j])]))>>))

TopShapes == {-1, -2, -3} \cup 0..MaxParams

Workflows ==
    {Obj(Opt("parameterRequests", ParamList("J", t))) : t \in TopShapes}
      \cup {Obj(Opt("parameterRequests", ParamList("J", t))
                \o <<P("stageRequests",
                       Arr([i \in DOMAIN ss |-> Stage(i, ss[i])]))>>) :
              t \in TopShapes, ss \in SeqsUpTo(StageShapes, MaxStages)}

\* A row already in csvRows when processWorkflow is called.
EarlierRow == makeRow(Str("Create Job Form"), Str("Earlier"), ParamAt("Earlier"))

ProcessWorkflowCalls ==
    {[fn |-> "processWorkflow", wf |-> w, csvRows |-> r] :
       w \in Workflows \cup {Null, Str("workflow")},
       r \in {<<>>, <<EarlierRow>>}}

NoCall == [fn |-> "none"]
NoRet == [status |-> "none"]

-----------------------------------------------------------------------------
(* State of the component.                                                 *)

NoFile == [zip |-> FALSE, valid |-> FALSE, contents |-> <<>>]

UploadInit ==
    /\ rows = <<>>
    /\ loading = FALSE
    /\ pc = "idle"
    /\ file = NoFile
    /\ entry = 0
    /\ jsonObjects = <<>>
    /\ csvRows = <<>>
    /\ wfIdx = 0
    /\ failed = FALSE
    /\ rowsBefore = <<>>

-----------------------------------------------------------------------------
(* The pure functions, called directly.                                    *)

InitCore ==
    /\ UploadInit
    /\ call \in MakeRowCalls \cup ProcessWorkflowCalls
    /\ ret = NoRet

CallMakeRow ==
    /\ call.fn = "makeRow"
    /\ ret = NoRet
    /\ ret' = IF makeRowThrows(call.param)
              THEN [status |-> "threw"]
              ELSE [status |-> "returned",
                    row |-> makeRow(call.stage, call.task, call.param)]
    /\ UNCHANGED <<uploadVars, call>>

CallProcessWorkflow ==
    /\ call.fn = "processWorkflow"
    /\ ret = NoRet
    /\ LET r == processWorkflow(call.wf, call.csvRows) IN
       ret' = [status |-> IF r.threw THEN "threw" ELSE "returned",
               rows |-> r.rows]
    /\ UNCHANGED <<uploadVars, call>>

NextCore == CallMakeRow \/ CallProcessWorkflow

SpecCore == InitCore /\ [][NextCore]_vars

-----------------------------------------------------------------------------
(* What the specification says of a call, stated without the code's        *)
(* operators.                                                              *)

RECURSIVE Concat(_)
Concat(seqs) == IF seqs = <<>> THEN <<>> ELSE Head(seqs) \o Concat(Tail(seqs))

RECURSIVE Joined(_, _)
\* A sequence of strings with sep between neighbours.
Joined(strs, sep) ==
    IF strs = <<>> THEN ""
    ELSE IF Len(strs) = 1 THEN strs[1]
    ELSE strs[1] \o sep \o Joined(Tail(strs), sep)

\* The entries of an array; none for an absent array.
Entries(v) == IF v.k = "array" THEN v.items ELSE <<>>
Field(v, name) ==
    IF v.k = "object" /\ \E i \in DOMAIN v.f : v.f[i].key = name
    THEN (CHOOSE pr \in {v.f[i] : i \in DOMAIN v.f} : pr.key = name).value
    ELSE Undefined
HasField(v, name) == v.k = "object" /\ \E i \in DOMAIN v.f : v.f[i].key = name
Absent(v) == v.k \in {"undefined", "null"}
IsStringList(v) == v.k = "array" /\ \A i \in DOMAIN v.items : v.items[i].k = "string"
Text(v) == IF v.k = "string" THEN v.s ELSE ""

\* The entities of the data model.
IsOptionList(v) ==
    /\ v.k = "array"
    /\ \A i \in DOMAIN v.items : Field(v.items[i], "name").k = "string"
IsRule(r) ==
    /\ r.k = "object"
    /\ Absent(Field(r, "input")) \/ IsStringList(Field(r, "input"))
    /\ \/ Absent(Field(r, "show"))
       \/ /\ Field(r, "show").k = "object"
          /\ \/ Absent(Field(Field(r, "show"), "parameters"))
             \/ IsStringList(Field(Field(r, "show"), "parameters"))
IsParameter(p) ==
    /\ p.k = "object"
    /\ Field(p, "label").k = "string"
    /\ \/ Absent(Field(p, "data"))
       \/ IsOptionList(Field(p, "data"))
       \/ /\ Field(p, "data").k = "object"
          /\ IsOptionList(Field(Field(p, "data"), "choices"))
    /\ \/ Absent(Field(p, "rules"))
       \/ /\ Field(p, "rules").k = "array"
          /\ \A i \in DOMAIN Field(p, "rules").items : IsRule(Field(p, "rules").items[i])
IsParameterList(v) ==
    Absent(v) \/ (v.k = "array" /\ \A i \in DOMAIN v.items : IsParameter(v.items[i]))
IsTask(t) == t.k = "object" /\ IsParameterList(Field(t, "parameterRequests"))
IsStage(st) ==
    /\ st.k = "object"
    /\ \/ Absent(Field(st, "taskRequests"))
       \/ /\ Field(st, "taskRequests").k = "array"
          /\ \A j \in DOMAIN Field(st, "taskRequests").items :
                IsTask(Field(st, "taskRequests").items[j])
IsWorkflow(wf) ==
    /\ wf.k = "object"
    /\ IsParameterList(Field(wf, "parameterRequests"))
    /\ \/ Absent(Field(wf, "stageRequests"))
       \/ /\ Field(wf, "stageRequests").k = "array"
          /\ \A i \in DOMAIN Field(wf, "stageRequests").items :
                IsStage(Field(wf, "stageRequests").items[i])

\* The contexts (stage label, task label, parameter) of section 4.1, in order.
TopContexts(wf) ==
    LET ps == Entries(Field(wf, "parameterRequests")) IN
    [i \in DOMAIN ps |-> <<Str("Create Job Form"), Field(ps[i], "label"), ps[i]>>]
TaskContexts(st, t) ==
    LET ps == Entries(Field(t, "parameterRequests")) IN
    [i \in DOMAIN ps |-> <<Field(st, "name"), Field(t, "name"), ps[i]>>]
StageContexts(st) ==
    LET ts == Entries(Field(st, "taskRequests")) IN
    Concat([j \in DOMAIN ts |-> TaskContexts(st, ts[j])])
NestedContexts(wf) ==
    LET ss == Entries(Field(wf, "stageRequests")) IN
    Concat([i \in DOMAIN ss |-> StageContexts(ss[i])])
Contexts(wf) == TopContexts(wf) \o NestedContexts(wf)

\* The rows a call of processWorkflow appended.
Appended == SubSeq(ret.rows, Len(call.csvRows) + 1, Len(ret.rows))
KeptEarlier == SubSeq(ret.rows, 1, Len(call.csvRows)) = call.csvRows

Walked == call.fn = "processWorkflow" /\ ret.status # "none"
WalkReturned == call.fn = "processWorkflow" /\ ret.status = "returned"
RowReturned == call.fn = "makeRow" /\ ret.status = "returned"

\* C1: processWorkflow appends as many rows as the workflow has parameters:
\* the entries of the top-level parameterRequests plus those of every task of
\* every stage, an absent or empty array counting as none. A Workflow of the
\* data model never makes the call throw.
C1_RowCount ==
    Walked =>
      /\ IsWorkflow(call.wf) => ret.status = "returned"
      /\ ret.status = "returned" =>
           /\ KeptEarlier
           /\ Len(Appended) =
                Len(TopContexts(call.wf)) + Len(NestedContexts(call.wf))

C1_Witness ==
    /\ WalkReturned
    /\ call.csvRows # <<>>
    /\ Len(TopContexts(call.wf)) = 2
    /\ Len(NestedContexts(call.wf)) = 3
    /\ \E i \in DOMAIN Entries(Field(call.wf, "stageRequests")) :
          ~HasField(Entries(Field(call.wf, "stageRequests"))[i], "taskRequests")
    /\ Len(Appended) = 2 + Len(NestedContexts(call.wf))

\* C2: the rows processWorkflow appends are, in this order, one per top-level
\* parameter with Stage Name "Create Job Form" and Activity Name the
\* parameter's label, then one per parameter of each task of each stage in
\* document order with Stage Name stage.name and Activity Name task.name.
C2_RowOrder ==
    WalkReturned =>
      /\ Len(Appended) = Len(Contexts(call.wf))
      /\ \A n \in DOMAIN Appended :
           /\ Field(Appended[n], "Stage Name") = Contexts(call.wf)[n][1]
           /\ Field(Appended[n], "Activity Name") = Contexts(call.wf)[n][2]
           /\ Field(Appended[n], "Instruction Title")
                = Field(Contexts(call.wf)[n][3], "label")

C2_Witness ==
    /\ WalkReturned
    /\ Len(TopContexts(call.wf)) = 2
    /\ Len(Appended) >= 7
    /\ Field(Appended[1], "Stage Name") = Str("Create Job Form")
    /\ Field(Appended[1], "Activity Name") = Str("J1")
    /\ Field(Appended[2], "Activity Name") = Str("J2")
    /\ Field(Appended[3], "Stage Name") = Str("S1")
    /\ Field(Appended[3], "Activity Name") = Str("S1T1")
    /\ Field(Appended[Len(Appended)], "Stage Name") = Str("S2")
    /\ Field(Appended[Len(Appended)], "Instruction Title") = Str("S2T2P1")

-----------------------------------------------------------------------------
(* makeRow: the texts and the fields of a row.                             *)

Row == ret.row
Param == call.param
Strings(v) == [i \in DOMAIN Entries(v) |-> Text(Entries(v)[i])]

\* The rule text of section 4.3; a missing list is an empty list.
RuleText(label, r) ==
    "Visible if [" \o label \o "] is ["
      \o Joined(Strings(Field(r, "input")), ", ")
      \o "]. Shows parameters: ["
      \o Joined(Strings(Field(Field(r, "show"), "parameters")), ", ")
      \o "]"

RulesText(p) ==
    LET rs == Entries(Field(p, "rules")) IN
    Joined([i \in DOMAIN rs |-> RuleText(Text(Field(p, "label")), rs[i])], "; ")

CompleteRule(r) ==
    /\ IsStringList(Field(r, "input"))
    /\ IsStringList(Field(Field(r, "show"), "parameters"))

\* C5: a rule whose input or show.parameters is missing renders with nothing
\* between the corresponding brackets, "[]".
C5_MissingRendersEmpty ==
    ( /\ RowReturned
      /\ IsParameter(Param)
      /\ \E i \in DOMAIN Entries(Field(Param, "rules")) :
            ~CompleteRule(Entries(Field(Param, "rules"))[i]) )
    => Field(Row, "Validations / Conditions") = Str(RulesText(Param))

\* The instruction templates of section 4.2.
Template(type, label) ==
    CASE type = "SINGLE_SELECT" -> "Performer selects if " \o label \o "."
      [] type = "MULTISELECT" ->
           "Performer selects one or more options for " \o label \o "."
      [] type = "CHECKLIST" -> "Performer checks applicable items for " \o label \o "."
      [] type = "SINGLE_LINE" -> "Performer enters " \o label \o "."
      [] type = "MULTI_LINE" ->
           "Performer enters a detailed response for " \o label \o "."
      [] type = "FILE_UPLOAD" ->
           "Performer uploads the required file(s) for " \o label \o "."
      [] type = "RESOURCE" -> "Performer selects a resource for " \o label \o "."
      [] type = "DATE" -> "Performer enters the date for " \o label \o "."
      [] type = "INSTRUCTION" -> "Performer provides input for " \o label \o "."

Recognized ==
    {"SINGLE_SELECT", "MULTISELECT", "CHECKLIST", "SINGLE_LINE", "MULTI_LINE",
     "FILE_UPLOAD", "RESOURCE", "DATE", "INSTRUCTION"}

\* The options list of section 4.2: the name fields, in order.
OptionNames(p) ==
    LET data == Field(p, "data") IN
    IF data.k = "array" THEN [i \in DOMAIN data.items |-> Field(data.items[i], "name")]
    ELSE IF Field(data, "choices").k = "array"
    THEN [i \in DOMAIN Field(data, "choices").items |->
            Field(Field(data, "choices").items[i], "name")]
    ELSE <<>>

\* C6: the description is the type's template, followed, whenever the options
\* list has at least one element, by " Available Options: * " and the names
\* joined by " * "; without options there is no suffix.
C6_OptionsSuffix ==
    ( /\ RowReturned
      /\ IsParameter(Param)
      /\ Text(Field(Param, "type")) \in Recognized )
    => LET t == Template(Text(Field(Param, "type")), Text(Field(Param, "label")))
           names == OptionNames(Param)
       IN  Field(Row, "Activity Description in detail") =
             Str(IF Len(names) > 0
                 THEN t \o " Available Options: * "
                        \o Joined([i \in DOMAIN names |-> Text(names[i])], " * ")
                 ELSE t)

\* C7: the Validations / Conditions field is always there and a string: the
\* empty string for a parameter without a rules key and for rules: [] alike,
\* and for rules with their lists the rule texts, in order, joined by "; ".
C7_Validations ==
    (RowReturned /\ Param.k = "object") =>
      /\ HasField(Row, "Validations / Conditions")
      /\ Field(Row, "Validations / Conditions").k = "string"
      /\ (~HasField(Param, "rules") \/ Field(Param, "rules") = Arr(<<>>))
           => Field(Row, "Validations / Conditions") = Str("")
      /\ ( /\ IsParameter(Param)
           /\ \A i \in DOMAIN Entries(Field(Param, "rules")) :
                 CompleteRule(Entries(Field(Param, "rules"))[i]) )
           => Field(Row, "Validations / Conditions") = Str(RulesText(Param))

C7_Witness ==
    /\ RowReturned
    /\ IsParameter(Param)
    /\ Len(Entries(Field(Param, "rules"))) = 2
    /\ Field(Row, "Validations / Conditions") =
         Str("Visible if [Status] is [Yes, No]. Shows parameters: [Comment]; "
             \o "Visible if [Status] is [Yes]. Shows parameters: [Comment, Reason]")

\* C8: verificationType "BOTH" enables both verification statuses, "SELF" the
\* first only, anything else none; so the B status is never enabled alone.
C8_Verification ==
    RowReturned =>
      LET vt == Field(Param, "verificationType")
          first == Field(Row, "Verification Status")
          second == Field(Row, "Verification B Status")
      IN  /\ vt = Str("BOTH") => first = Str("Enabled") /\ second = Str("Enabled")
          /\ vt = Str("SELF") => first = Str("Enabled") /\ second = Str("Disabled")
          /\ vt \notin {Str("BOTH"), Str("SELF")}
               => first = Str("Disabled") /\ second = Str("Disabled")
          /\ ~(second = Str("Enabled") /\ first = Str("Disabled"))

C8_Witness ==
    /\ RowReturned
    /\ Field(Param, "verificationType") = Str("SELF")
    /\ Field(Row, "Verification Status") = Str("Enabled")
    /\ Field(Row, "Verification B Status") = Str("Disabled")

FieldOrder ==
    <<"Stage Name", "Activity Name", "Performer", "Activity Description in detail",
      "Validations / Conditions", "Instruction Title", "Field Type",
      "Activity / Parameter Type", "Configuration Feasibility",
      "Configuration Feasibility Notes", "Configuration Status",
      "Verification Status", "Tester Comments", "Verification B Status",
      "Tester Comments (B)">>

\* C9: every row has the same 15 fields in the same order, whatever the
\* parameter's type and whether it is a top-level or a task parameter.
C9_FieldOrder ==
    RowReturned =>
      /\ Row.k = "object"
      /\ Len(Row.f) = 15
      /\ \A i \in DOMAIN Row.f : Row.f[i].key = FieldOrder[i]

C9_Witness ==
    /\ RowReturned
    /\ call.stage = Str("Create Job Form")
    /\ Field(Param, "label") = Str("Priority")
    /\ ~HasField(Param, "type")
    /\ Len(Row.f) = 15
    /\ Row.f[8] = P("Activity / Parameter Type", Undefined)

-----------------------------------------------------------------------------
(* handleFileUpload                                                        *)

\* A text is either no JSON (JSON.parse throws a SyntaxError) or the value
\* JSON.parse returns for it.
NoJSON == [valid |-> FALSE, json |-> Null]
JSONText(v) == [valid |-> TRUE, json |-> v]

NullOption ==
    Parameter(Str("Colour"), Str("SINGLE_SELECT"), Undefined, Undefined,
              Arr(<<Obj(<<P("name", Str("Red"))>>), Null>>), Undefined)
BadRule ==
    Parameter(Str("Status"), Str("SINGLE_LINE"), Undefined, Undefined, Undefined,
              Arr(<<Obj(<<P("input", Str("Yes"))>>)>>))

WForm == Obj(<<P("parameterRequests", Arr(<<ParamAt("Full Name")>>))>>)
WNested ==
    Obj(<<P("parameterRequests", Arr(<<ParamAt("Site")>>)),
          P("stageRequests",
            Arr(<<Obj(<<P("name", Str("Review")),
                        P("taskRequests",
                          Arr(<<Obj(<<P("name", Str("Approve")),
                                      P("parameterRequests",
                                        Arr(<<ParamAt("Signed"), ParamAt("Date")>>))>>)>>))>>)>>))>>)
WNullParam ==
    Obj(<<P("parameterRequests", Arr(<<ParamAt("First"), Null, ParamAt("Third")>>))>>)
WNullOption ==
    Obj(<<P("parameterRequests", Arr(<<NullOption, ParamAt("After")>>))>>)
WBadRule ==
    Obj(<<P("stageRequests",
            Arr(<<Obj(<<P("name", Str("Check")),
                        P("taskRequests",
                          Arr(<<Obj(<<P("name", Str("Inspect")),
                                      P("parameterRequests",
                                        Arr(<<ParamAt("Before"), BadRule,
                                              ParamAt("Later")>>))>>)>>))>>)>>))>>)

UploadWorkflows == {WForm, WNested, WNullParam, WNullOption, WBadRule}

JSONTexts ==
    {NoJSON}
      \cup {JSONText(w) : w \in UploadWorkflows \cup {Null}}
      \cup {JSONText(Arr(ws)) :
              ws \in SeqsUpTo({WForm, WNested, WNullParam, WBadRule}, MaxDocs)}

EntryTexts ==
    {NoJSON, JSONText(WForm), JSONText(WNullParam), JSONText(Arr(<<WNested, WForm>>))}

Files ==
    {[zip |-> FALSE, valid |-> TRUE, contents |-> <<t>>] : t \in JSONTexts}
      \cup {[zip |-> TRUE, valid |-> TRUE, contents |-> es] :
              es \in SeqsUpTo(EntryTexts, MaxEntries)}
      \cup {[zip |-> TRUE, valid |-> FALSE, contents |-> <<>>]}

\* Array.isArray(parsed) ? parsed : [parsed]
spread(parsed) == IF isArray(parsed) THEN parsed.items ELSE <<parsed>>

\* The parsed documents put in front of the earlier ones.
pushParsedFront(objects, parsed) == spread(parsed) \o objects

\* jsonObjects.push(...(Array.isArray(parsed) ? parsed : [parsed]))
pushParsed(objects, parsed) == objects \o spread(parsed)

\* handleFileUpload(file), up to its first await. The model follows one call
\* of the handler at a time: file, jsonObjects and csvRows are the locals of
\* that call.
handleFileUpload(f) ==
    /\ pc \in {"idle", "done"}
    /\ loading' = TRUE
    /\ jsonObjects' = <<>>
    /\ file' = f
    /\ entry' = 0
    /\ csvRows' = <<>>
    /\ wfIdx' = 0
    /\ failed' = FALSE
    /\ rowsBefore' = rows
    /\ pc' = IF f.zip THEN "loadAsync" ELSE "text"
    /\ UNCHANGED <<rows, call, ret>>

Upload == \E f \in Files : handleFileUpload(f)

\* await JSZip.loadAsync(file); the for-of loop begins.
LoadZip ==
    /\ pc = "loadAsync"
    /\ pc' = IF ~file.valid THEN "catch"
             ELSE IF Len(file.contents) = 0 THEN "forEach" ELSE "entry"
    /\ entry' = IF file.valid THEN 1 ELSE entry
    /\ UNCHANGED <<rows, loading, file, jsonObjects, csvRows, wfIdx, failed,
                   rowsBefore, call, ret>>

\* One turn of the for-of loop: read the entry, parse it, push its documents.
ReadEntry ==
    /\ pc = "entry"
    /\ LET t == file.contents[entry] IN
       IF ~t.valid
       THEN /\ pc' = "catch"
            /\ UNCHANGED <<jsonObjects, entry>>
       ELSE /\ jsonObjects' = pushParsed(jsonObjects, t.json)
            /\ entry' = entry + 1
            /\ pc' = IF entry = Len(file.contents) THEN "forEach" ELSE "entry"
    /\ UNCHANGED <<rows, loading, file, csvRows, wfIdx, failed, rowsBefore,
                   call, ret>>

\* await file.text(); JSON.parse(text); jsonObjects = ...
ReadText ==
    /\ pc = "text"
    /\ LET t == file.contents[1] IN
       IF ~t.valid
       THEN /\ pc' = "catch"
            /\ UNCHANGED jsonObjects
       ELSE /\ jsonObjects' = spread(t.json)
            /\ pc' = "forEach"
    /\ UNCHANGED <<rows, loading, file, entry, csvRows, wfIdx, failed,
                   rowsBefore, call, ret>>

\* One turn of jsonObjects.forEach((wf) => processWorkflow(wf, csvRows)).
ProcessWorkflow ==
    /\ pc = "forEach"
    /\ wfIdx < Len(jsonObjects)
    /\ LET r == processWorkflow(jsonObjects[wfIdx + 1], csvRows) IN
       /\ csvRows' = r.rows
       /\ wfIdx' = IF r.threw THEN wfIdx ELSE wfIdx + 1
       /\ pc' = IF r.threw THEN "catch" ELSE "forEach"
    /\ UNCHANGED <<rows, loading, file, entry, jsonObjects, failed, rowsBefore,
                   call, ret>>

\* setRows(csvRows)
SetRows ==
    /\ pc = "forEach"
    /\ wfIdx = Len(jsonObjects)
    /\ rows' = csvRows
    /\ pc' = "finally"
    /\ UNCHANGED <<loading, file, entry, jsonObjects, csvRows, wfIdx, failed,
                   rowsBefore, call, ret>>

\* A catch block that shows what had been converted before the error.
CatchShowsPartial ==
    /\ pc = "catch"
    /\ failed' = TRUE
    /\ rows' = csvRows
    /\ pc' = "finally"
    /\ UNCHANGED <<loading, file, entry, jsonObjects, csvRows, wfIdx,
                   rowsBefore, call, ret>>

\* catch (err) { console.error(...); alert(...) }
Catch ==
    /\ pc = "catch"
    /\ failed' = TRUE
    /\ pc' = "finally"
    /\ UNCHANGED <<rows, loading, file, entry, jsonObjects, csvRows, wfIdx,
                   rowsBefore, call, ret>>

\* finally { setLoading(false) }
Finally ==
    /\ pc = "finally"
    /\ loading' = FALSE
    /\ pc' = "done"
    /\ UNCHANGED <<rows, file, entry, jsonObjects, csvRows, wfIdx, failed,
                   rowsBefore, call, ret>>

Init ==
    /\ UploadInit
    /\ call = NoCall
    /\ ret = NoRet

Next ==
    \/ Upload
    \/ LoadZip
    \/ ReadEntry
    \/ ReadText
    \/ ProcessWorkflow
    \/ SetRows
    \/ Catch
    \/ Finally

Spec == Init /\ [][Next]_vars

-----------------------------------------------------------------------------
(* An upload as a whole.                                                   *)

\* The upload's documents in input order: the elements of a top-level array,
\* the entries of a zip.
Decoded == file.valid /\ \A i \in DOMAIN file.contents : file.contents[i].valid
Documents ==
    Concat([i \in DOMAIN file.contents |->
              IF file.contents[i].json.k = "array"
              THEN file.contents[i].json.items
              ELSE <<file.contents[i].json>>])

\* rows(A): what converting the document alone gives.
RowsOf(doc) == processWorkflow(doc, <<>>).rows
Throws(doc) == processWorkflow(doc, <<>>).threw

Ended == pc = "done"

\* The parameters of the data model among those of the input, in order.
SoundContexts ==
    SelectSeq(Concat([d \in DOMAIN Documents |-> Contexts(Documents[d])]),
              LAMBDA c : IsParameter(c[3]))
HasMalformed ==
    \E d \in DOMAIN Documents :
       \E n \in DOMAIN Contexts(Documents[d]) :
          ~IsParameter(Contexts(Documents[d])[n][3])

\* C3: a malformed parameter never aborts the others: when the decoded
\* workflows hold a malformed parameter, the conversion still ends with the
\* row of every other parameter.
C3_NoAbort ==
    ( /\ Ended
      /\ Decoded
      /\ \A d \in DOMAIN Documents : Documents[d].k = "object"
      /\ HasMalformed ) =>
      /\ Len(rows) = Len(SoundContexts)
      /\ \A n \in DOMAIN rows :
           /\ Field(rows[n], "Stage Name") = SoundContexts[n][1]
           /\ Field(rows[n], "Activity Name") = SoundContexts[n][2]
           /\ Field(rows[n], "Instruction Title") = Field(SoundContexts[n][3], "label")

\* C4: the rows of an upload of several documents are rows(A) followed by
\* rows(B) for documents A then B in input order.
C4_Concatenation ==
    (Ended /\ ~failed) =>
      rows = Concat([d \in DOMAIN Documents |-> RowsOf(Documents[d])])

C4_Witness ==
    /\ Ended
    /\ ~failed
    /\ file.zip
    /\ Len(file.contents) = 2
    /\ file.contents[1].json = WForm
    /\ file.contents[2].json = Arr(<<WNested, WForm>>)
    /\ Len(rows) = 5
    /\ Field(rows[1], "Instruction Title") = Str("Full Name")
    /\ Field(rows[2], "Instruction Title") = Str("Site")
    /\ Field(rows[4], "Instruction Title") = Str("Date")
    /\ Field(rows[5], "Instruction Title") = Str("Full Name")

\* C10: an upload is all-or-nothing. It fails exactly when the file or an
\* entry is not decoded or a workflow makes processWorkflow throw; a failed
\* upload leaves rows as they were before it, a successful one replaces them
\* by its own rows, no step before setRows touches rows, and loading is false
\* when the upload has ended.
C10_AllOrNothing ==
    /\ pc \in {"loadAsync", "text", "entry", "forEach", "catch"} =>
         rows = rowsBefore /\ loading
    /\ Ended =>
         /\ ~loading
         /\ failed <=> (~Decoded \/ \E d \in DOMAIN Documents : Throws(Documents[d]))
         /\ failed => rows = rowsBefore
         /\ ~failed => rows = Concat([d \in DOMAIN Documents |-> RowsOf(Documents[d])])

C10_Witness ==
    /\ Ended
    /\ failed
    /\ Decoded
    /\ Len(csvRows) >= 4
    /\ rowsBefore # <<>>
    /\ rows = rowsBefore
    /\ rows # csvRows
    /\ ~loading

====
